---- MODULE Spec2Model ----
(***************************************************************************)
(* Model of fast_bert/learner_lm.py: BertLMLearner, the masked-language-   *)
(* model fine-tuning learner.  The state is the learner object's fields,   *)
(* the locals of a running fit()/validate() call and the call position.   *)
(*                                                                         *)
(* Numbers.  The running loss counters are kept in fixed point: one unit   *)
(* is 1/Denom of a loss of 1, with Denom chosen so that `loss / k' and     *)
(* `(tr_loss - logging_loss) / logging_steps' are exact.  Means whose      *)
(* divisor is a run-time count are kept as reduced fractions.  Floating    *)
(* point rounding is not modelled.                                         *)
(***************************************************************************)
EXTENDS Integers, Sequences, FiniteSets, TLC

\* ---------------------------------------------------------------- bounds
MaxBatches  == 3    \* len(train_dataloader) ranges over 0..MaxBatches
MaxAccum    == 2    \* grad_accumulation_steps ranges over 1..MaxAccum
MaxEpochs   == 2    \* fit's epochs argument ranges over 0..MaxEpochs
MaxLogging  == 2    \* logging_steps ranges over 0..MaxLogging
MaxVal      == 2    \* len(val_dl) ranges over 0..MaxVal
MaxMaxSteps == 2    \* an assigned max_steps ranges over 1..MaxMaxSteps
MaxCalls    == 2    \* top-level calls (fit, validate) made on one learner
LossLevels  == 3    \* the model's forward loss takes the values 1..LossLevels

\* ------------------------------------------------------------- arithmetic
RECURSIVE GCD(_, _)
GCD(a, b) == IF b = 0 THEN a ELSE GCD(b, a % b)

RECURSIVE LCMUpTo(_)
LCMUpTo(n) == IF n <= 1 THEN 1
              ELSE LET l == LCMUpTo(n - 1) IN (l * n) \div GCD(l, n)

\* fixed-point denominator of the loss counters
Denom == LCMUpTo(MaxAccum) * LCMUpTo(MaxLogging)

\* a scalar value handed out by the learner: a reduced fraction n/d, or
\* exp of one (kind "exp")
Frac(n, d) == LET g == GCD(n, d) IN [kind |-> "num", n |-> n \div g, d |-> d \div g]
Zero == Frac(0, 1)

\* torch.exp(torch.tensor(x)): exp is injective, so exp(x) is kept symbolically
Exp(x) == [kind |-> "exp", n |-> x.n, d |-> x.d]

RECURSIVE SumTo(_, _)
SumTo(f, n) == IF n = 0 THEN 0 ELSE f[n] + SumTo(f, n - 1)

\* ------------------------------------------------------------------ state
VARIABLES
  ampAvail,                \* IS_AMP_AVAILABLE
  nTrain, nVal,            \* len(data.train_dl), len(data.val_dl)
  pc, err,                 \* call position; the exception that ended a call
  is_fp16, scaler, neptune_run, grad_accumulation_steps, logging_steps,
  max_steps, metrics, self_epochs,
  mode, params, grads,     \* model.training; optimizer updates applied;
                           \* backward passes accumulated since zero_grad
  epochs, validate,        \* fit's arguments
  t_total, epoch, step, global_step, epoch_step,
  tr_loss, logging_loss, epoch_loss,
  optSteps, schedSteps, ampOps,  \* calls on this fit's optimizer / scheduler;
                                 \* autocast and scaler calls of the learner
  cumAt,                   \* history: tr_loss when each optimizer step completed
  logged,                  \* records written at logging boundaries
  ret,                     \* what the last fit() returned
  results, valRet, valRuns,\* validate()'s return value, its caller, its runs
  trained,                 \* history: a training step ran since validate() last returned
  ops,                     \* the operations of the last accumulation boundary, in order
  applied,                 \* backward passes held in the gradients the last optimizer step used
  fitVals,                 \* validate() runs that returned inside the current fit
  accLoss,                 \* sum of the scaled losses of this epoch's micro-batches since its last boundary
  stepLoss,                \* for each optimizer step of the fit, the average loss of its micro-batches
  fwds,                    \* the forward passes run so far: caller, model mode, gradient tracking
  sinceVal,                \* validate() has returned and no training step has started since
  multi_gpu,               \* self.multi_gpu
  wrapDepth,               \* DataParallel layers around self.model
  saved,                   \* wrapper depths of the objects save_model has persisted
  maskCalls,               \* the callers of data.mask_tokens on the latest micro-batch, in order
  fed,                     \* the caller whose (inputs, labels) pair the latest forward pass was given
  calls

vars == <<ampAvail, nTrain, nVal, pc, err, is_fp16, scaler, neptune_run,
          grad_accumulation_steps, logging_steps, max_steps, metrics,
          self_epochs, mode, params, grads, epochs, validate, t_total, epoch,
          step, global_step, epoch_step, tr_loss, logging_loss, epoch_loss,
          optSteps, schedSteps, ampOps, cumAt, logged, ret, results, valRet,
          valRuns, trained, calls,
          ops, applied,
          fitVals,
          accLoss, stepLoss,
          fwds, sinceVal,
          multi_gpu, wrapDepth, saved,
          maskCalls, fed>>

envVars   == <<ampAvail, nTrain, nVal>>
cfgVars   == <<is_fp16, scaler, neptune_run, grad_accumulation_steps,
               logging_steps, metrics>>
modelVars == <<mode, params, grads>>
argVars   == <<epochs, validate, t_total>>
countVars == <<global_step, epoch_step, tr_loss, logging_loss, epoch_loss>>
stepVars  == <<optSteps, schedSteps>>
valVars   == <<results, valRet, valRuns>>

MetricNames == {"accuracy", "loss", "perplexity"}
\* the configured metrics list: empty, or one metric
MetricLists == {{}} \cup {{m} : m \in MetricNames}

None == "None"

\* --------------------------------------------------- external collaborators
\* The model's forward pass is external: its loss is a function of the
\* parameters (the number of optimizer updates applied so far) and the batch.
\* outputs[0] of self.model(inputs, masked_lm_labels=labels), in whole losses
TrainBatchLoss(p, i) == 1 + ((p + i) % LossLevels)

\* outputs[0] of self.model(batch, masked_lm_labels=batch) on validation
\* batch j; evaluation mode switches dropout off, training mode leaves it on
ValBatchLoss(p, j, m) == 1 + ((2 * p + j + (IF m = "train" THEN 1 ELSE 0)) % LossLevels)

\* ------------------------------------------------------------ construction
\* from_pretrained_model: the precision flag handed to the initialiser
FromPretrainedFp16(req, amp) == IF req /\ ~amp THEN FALSE ELSE req

\* __init__: self.scaler = torch.cuda.amp.GradScaler() if is_fp16 is True else None.
\* On a runtime without AMP the source does not decide whether GradScaler
\* exists: either the attribute lookup raises or a scaler is created.
InitScaler(fp16, amp) ==
  IF ~fp16 THEN {[err |-> "none", scaler |-> None]}
  ELSE IF amp THEN {[err |-> "none", scaler |-> "GradScaler"]}
  ELSE {[err |-> "AttributeError", scaler |-> None],
        [err |-> "none", scaler |-> "GradScaler"]}

NoResults == [m \in {} |-> Zero]

\* no fit() call has returned yet
NoRet == [total_steps |-> -1, mean_loss |-> Zero]

Init ==
  /\ ampAvail \in BOOLEAN
  /\ nTrain \in 0..MaxBatches
  /\ nVal \in 0..MaxVal
  /\ pc = "new" /\ err = "none"
  /\ is_fp16 = FALSE /\ scaler = None /\ neptune_run = FALSE
  /\ grad_accumulation_steps = 1 /\ logging_steps = 0
  /\ max_steps = -1 /\ metrics = {}
  /\ self_epochs = 0      \* not set before fit runs with max_steps > 0
  /\ mode = "train" /\ params = 0 /\ grads = 0
  /\ epochs = 0 /\ validate = FALSE /\ t_total = 0
  /\ epoch = 0 /\ step = 0 /\ global_step = 0 /\ epoch_step = 0
  /\ tr_loss = 0 /\ logging_loss = 0 /\ epoch_loss = 0
  /\ optSteps = 0 /\ schedSteps = 0 /\ ampOps = 0
  /\ cumAt = <<>> /\ logged = <<>> /\ ret = NoRet
  /\ results = NoResults /\ valRet = None /\ valRuns = 0
  /\ trained = TRUE /\ calls = 0
  /\ ops = <<>>
  /\ applied = 0
  /\ fitVals = 0
  /\ accLoss = 0
  /\ stepLoss = <<>>
  /\ fwds = {}
  /\ sinceVal = FALSE
  /\ multi_gpu = TRUE
  /\ wrapDepth = 0
  /\ saved = {}
  /\ maskCalls = <<>>
  /\ fed = None

\* BertLMLearner.from_pretrained_model(...) or BertLMLearner(...), with the
\* metrics argument drawn from MS, multi_gpu from MG and a model that comes
\* in inside WD layers of DataParallel
ConstructWith(MS, MG, WD) ==
  /\ pc = "new"
  /\ \E path \in {"from_pretrained_model", "__init__"}, req \in BOOLEAN,
        nr \in BOOLEAN, k \in 1..MaxAccum, ls \in 0..MaxLogging,
        ms \in MS :
       LET fp16 == IF path = "from_pretrained_model"
                   THEN FromPretrainedFp16(req, ampAvail) ELSE req
       IN \E o \in InitScaler(fp16, ampAvail) :
            /\ is_fp16' = fp16
            /\ scaler' = o.scaler
            /\ err' = o.err
            /\ pc' = IF o.err = "none" THEN "idle" ELSE "raised"
            /\ neptune_run' = nr
            /\ grad_accumulation_steps' = k
            /\ logging_steps' = ls
            /\ metrics' = ms
  /\ max_steps' = -1
  /\ UNCHANGED <<envVars, self_epochs, modelVars, argVars, epoch, step,
                 countVars, stepVars, ampOps, cumAt, logged, ret, valVars,
                 trained, calls>>
  /\ UNCHANGED <<ops, applied>>
  /\ UNCHANGED <<fitVals>>
  /\ UNCHANGED <<accLoss, stepLoss>>
  /\ UNCHANGED <<fwds, sinceVal>>
  /\ \E mg \in MG : multi_gpu' = mg
  /\ \E w \in WD : wrapDepth' = w
  /\ UNCHANGED <<saved>>
  /\ UNCHANGED <<maskCalls, fed>>

\* a learner with no metrics configured, multi_gpu at its default, on a bare model
Construct == ConstructWith({{}}, {TRUE}, {0})

\* a learner with any of the metrics lists
ConstructMetrics == ConstructWith(MetricLists, {TRUE}, {0})

\* a learner with multi_gpu on or off, on a bare or an already wrapped model
ConstructMultiGpu == ConstructWith({{}}, BOOLEAN, 0..1)

\* what hasattr(model, "module") selects: the wrapped module, or the model
Unwrapped(d) == IF d > 0 THEN d - 1 ELSE d

\* model_to_save = self.model.module if hasattr(self.model, "module") else self.model
SaveDepth(d) == Unwrapped(d)

\* learner.save_model(), called by the user after a call has ended
SaveModel ==
  /\ pc \in {"idle", "raised"} /\ calls >= 1
  /\ saved' = saved \cup {SaveDepth(wrapDepth)}
  /\ UNCHANGED <<envVars, pc, err, cfgVars, max_steps, self_epochs, modelVars,
                 argVars, epoch, step, countVars, stepVars, ampOps, cumAt,
                 logged, ret, valVars, trained, calls>>
  /\ UNCHANGED <<ops, applied, fitVals, accLoss, stepLoss, fwds, sinceVal,
                 multi_gpu, wrapDepth>>
  /\ UNCHANGED <<maskCalls, fed>>

\* learner.max_steps = m, assigned by the caller between calls
SetMaxSteps ==
  /\ pc = "idle" /\ max_steps = -1 /\ calls = 0
  /\ \E m \in 1..MaxMaxSteps : max_steps' = m
  /\ UNCHANGED <<envVars, pc, err, cfgVars, self_epochs, modelVars, argVars,
                 epoch, step, countVars, stepVars, ampOps, cumAt, logged, ret,
                 valVars, trained, calls>>
  /\ UNCHANGED <<ops, applied>>
  /\ UNCHANGED <<fitVals>>
  /\ UNCHANGED <<accLoss, stepLoss>>
  /\ UNCHANGED <<fwds, sinceVal>>
  /\ UNCHANGED <<multi_gpu, wrapDepth, saved>>
  /\ UNCHANGED <<maskCalls, fed>>

\* ---------------------------------------------------------------------- fit
\* an exception leaves the call: nothing after the raising line runs
Raise(e) == pc' = "raised" /\ err' = e

\* the position after a micro-batch: the next batch of the epoch, or its end
AfterBatch(s) == IF s < nTrain THEN "micro" ELSE "epoch_end"

\* faulty variant: the product is taken before the floor division
TTotalProductFirst(n, k, e) == (n * e) \div k

\* t_total = len(train_dataloader) // self.grad_accumulation_steps * epochs
TTotal(n, k, e) == (n \div k) * e

\* self.epochs = self.max_steps // len(train_dataloader) // self.grad_accumulation_steps + 1
SelfEpochs(ms, n, k) == ((ms \div n) \div k) + 1

\* faulty variant: fit wraps the model without unwrapping it first
FitUnwrapNone(d) == d

\* if hasattr(self.model, "module"): self.model = self.model.module
FitUnwrap(d) == Unwrapped(d)

\* if self.multi_gpu is True: self.model = torch.nn.DataParallel(self.model)
FitWrap(d, mg) == IF mg THEN d + 1 ELSE d

\* fit(epochs, lr, validate, ...) up to the loop header
FitStart ==
  /\ pc = "idle" /\ calls < MaxCalls
  /\ calls' = calls + 1
  /\ \E e \in 0..MaxEpochs, v \in BOOLEAN :
       /\ epochs' = e /\ validate' = v
       /\ IF max_steps > 0 /\ nTrain = 0
          THEN /\ Raise("ZeroDivisionError")
               /\ UNCHANGED <<t_total, self_epochs, grads, epoch, step,
                              countVars, stepVars, cumAt, logged>>
          ELSE /\ IF max_steps > 0
                  THEN /\ t_total' = max_steps
                       /\ self_epochs' = SelfEpochs(max_steps, nTrain, grad_accumulation_steps)
                  ELSE /\ t_total' = TTotal(nTrain, grad_accumulation_steps, e)
                       /\ UNCHANGED self_epochs
               /\ optSteps' = 0 /\ schedSteps' = 0
               /\ global_step' = 0 /\ epoch_step' = 0
               /\ tr_loss' = 0 /\ logging_loss' = 0 /\ epoch_loss' = 0
               /\ grads' = 0
               /\ epoch' = 0 /\ step' = 0
               /\ cumAt' = <<>> /\ logged' = <<>>
               /\ pc' = IF e > 0 THEN "epoch_start" ELSE "return"
               /\ UNCHANGED err
  /\ UNCHANGED <<envVars, cfgVars, max_steps, mode, params, ampOps, ret,
                 valVars, trained>>
  /\ ops' = IF max_steps > 0 /\ nTrain = 0 THEN ops ELSE <<>>
  /\ applied' = IF max_steps > 0 /\ nTrain = 0 THEN applied ELSE 0
  /\ fitVals' = IF max_steps > 0 /\ nTrain = 0 THEN fitVals ELSE 0
  /\ accLoss' = IF max_steps > 0 /\ nTrain = 0 THEN accLoss ELSE 0
  /\ stepLoss' = IF max_steps > 0 /\ nTrain = 0 THEN stepLoss ELSE <<>>
  /\ UNCHANGED <<fwds, sinceVal>>
  /\ wrapDepth' = IF max_steps > 0 /\ nTrain = 0 THEN wrapDepth
                ELSE FitWrap(FitUnwrap(wrapDepth), multi_gpu)
  /\ UNCHANGED <<multi_gpu, saved>>
  /\ UNCHANGED <<maskCalls, fed>>

\* faulty variant: global_step is reset with the epoch's counters
EpochStartResetsGlobalStep ==
  /\ pc = "epoch_start"
  /\ epoch_step' = 0 /\ epoch_loss' = 0 /\ global_step' = 0
  /\ step' = 0
  /\ pc' = AfterBatch(0)
  /\ UNCHANGED <<envVars, err, cfgVars, max_steps, self_epochs, modelVars,
                 argVars, epoch, tr_loss, logging_loss, stepVars,
                 ampOps, cumAt, logged, ret, valVars, trained, calls>>
  /\ UNCHANGED <<ops, applied>>
  /\ UNCHANGED <<fitVals>>
  /\ accLoss' = 0
  /\ UNCHANGED <<stepLoss>>
  /\ UNCHANGED <<fwds, sinceVal>>
  /\ UNCHANGED <<multi_gpu, wrapDepth, saved>>
  /\ UNCHANGED <<maskCalls, fed>>

\* for epoch in pbar: epoch_step = 0; epoch_loss = 0.0
EpochStart ==
  /\ pc = "epoch_start"
  /\ epoch_step' = 0 /\ epoch_loss' = 0
  /\ step' = 0
  /\ pc' = AfterBatch(0)
  /\ UNCHANGED <<envVars, err, cfgVars, max_steps, self_epochs, modelVars,
                 argVars, epoch, global_step, tr_loss, logging_loss, stepVars,
                 ampOps, cumAt, logged, ret, valVars, trained, calls>>
  /\ UNCHANGED <<ops, applied>>
  /\ UNCHANGED <<fitVals>>
  /\ accLoss' = 0
  /\ UNCHANGED <<stepLoss>>
  /\ UNCHANGED <<fwds, sinceVal>>
  /\ UNCHANGED <<multi_gpu, wrapDepth, saved>>
  /\ UNCHANGED <<maskCalls, fed>>

\* training_step: if self.grad_accumulation_steps > 1: loss = loss / k
ScaledLoss(raw, k) == IF k > 1 THEN (raw * Denom) \div k ELSE raw * Denom

\* faulty variant: the 0-based index is tested instead of step + 1
AtAccumBoundaryOffByOne(s, k) == s % k = 0

\* (step + 1) % self.grad_accumulation_steps == 0
AtAccumBoundary(s, k) == (s + 1) % k = 0

\* self.logging_steps > 0 and global_step % self.logging_steps == 0
AtLoggingBoundary(g, ls) == ls > 0 /\ g % ls = 0

\* faulty variant: the logging test sits outside the accumulation test
AfterMicroStepLogs(s) ==
  IF AtLoggingBoundary(global_step, logging_steps) THEN "logging" ELSE AfterBatch(s)

\* a micro-batch that is no accumulation boundary skips the whole `if' body,
\* the logging test included
AfterMicroStep(s) == AfterBatch(s)

\* the batch loop: inputs, labels = self.data.mask_tokens(batch)
LoopMask == <<"fit">>

\* training_step: inputs, labels = self.data.mask_tokens(batch), the pair
\* handed to self.model
StepMask == <<"training_step">>

\* faulty variant: training_step leaves the model's mode as it finds it
TrainForwardModeKept(m) == m

\* self.model.train() before the forward pass of training_step
TrainForwardMode(m) == "train"

\* one iteration of the batch loop up to the accumulation test:
\* training_step(batch), then tr_loss += loss.item(); epoch_loss += loss.item()
MicroStep ==
  /\ pc = "micro"
  /\ IF is_fp16 /\ ~ampAvail
     THEN \* with autocast(): the name was never imported
          /\ Raise("NameError")
          /\ mode' = TrainForwardMode(mode)
          /\ UNCHANGED <<params, grads, step, countVars, ampOps, trained>>
     ELSE IF ~neptune_run
     THEN \* self.neptune_run[...] on None, after the forward pass
          /\ Raise("TypeError")
          /\ mode' = TrainForwardMode(mode)
          /\ ampOps' = IF is_fp16 THEN ampOps + 1 ELSE ampOps
          /\ UNCHANGED <<params, grads, step, countVars, trained>>
     ELSE LET loss == ScaledLoss(TrainBatchLoss(params, step + 1),
                                 grad_accumulation_steps)
          IN /\ mode' = TrainForwardMode(mode)
             /\ grads' = grads + 1
             /\ ampOps' = IF is_fp16 THEN ampOps + 2 ELSE ampOps
             /\ tr_loss' = tr_loss + loss
             /\ epoch_loss' = epoch_loss + loss
             /\ trained' = TRUE
             /\ step' = step + 1
             /\ pc' = IF AtAccumBoundary(step, grad_accumulation_steps)
                      THEN "accum" ELSE AfterMicroStep(step + 1)
             /\ UNCHANGED <<err, params, global_step, epoch_step, logging_loss>>
  /\ UNCHANGED <<envVars, cfgVars, max_steps, self_epochs, argVars, epoch,
                 stepVars, cumAt, logged, ret, valVars, calls>>
  /\ UNCHANGED <<ops, applied>>
  /\ UNCHANGED <<fitVals>>
  /\ accLoss' = IF (is_fp16 /\ ~ampAvail) \/ ~neptune_run THEN accLoss
              ELSE accLoss + ScaledLoss(TrainBatchLoss(params, step + 1), grad_accumulation_steps)
  /\ UNCHANGED <<stepLoss>>
  /\ fwds' = IF is_fp16 /\ ~ampAvail THEN fwds
           ELSE fwds \cup {[kind |-> "train", mode |-> TrainForwardMode(mode), grad |-> TRUE]}
  /\ sinceVal' = FALSE
  /\ UNCHANGED <<multi_gpu, wrapDepth, saved>>
  /\ maskCalls' = LoopMask \o StepMask
  /\ fed' = IF is_fp16 /\ ~ampAvail THEN fed ELSE StepMask[1]

\* the position of operation x in the sequence ops; 0 when it is not in it
Pos(seq, x) ==
  IF \E i \in 1..Len(seq) : seq[i] = x
  THEN CHOOSE i \in 1..Len(seq) : seq[i] = x /\ \A j \in 1..(i - 1) : seq[j] # x
  ELSE 0

\* the operation of a boundary that updates the parameters
StepOp(fp16) == IF fp16 THEN "scaler.step" ELSE "optimizer.step"

\* faulty variant: the gradients are zeroed before the optimizer step
BoundaryOpsZeroFirst(fp16) ==
  <<"clip_grad_norm", "zero_grad">>
  \o (IF fp16 THEN <<"scaler.unscale", "scaler.step", "scaler.update">>
              ELSE <<"optimizer.step">>)
  \o <<"scheduler.step", "global_step", "epoch_step">>

\* the body of `if (step + 1) % self.grad_accumulation_steps == 0:' up to
\* epoch_step += 1, as the sequence of its calls and assignments
BoundaryOps(fp16) ==
  <<"clip_grad_norm">>
  \o (IF fp16 THEN <<"scaler.unscale", "scaler.step", "scaler.update">>
              ELSE <<"optimizer.step">>)
  \o <<"scheduler.step", "zero_grad", "global_step", "epoch_step">>

\* the backward passes held in the gradients when the optimizer step of the
\* boundary runs: none if zero_grad came first
AppliedGrads(seq, g) ==
  IF Pos(seq, "zero_grad") # 0
     /\ Pos(seq, "zero_grad") < Pos(seq, "scaler.step") + Pos(seq, "optimizer.step")
  THEN 0 ELSE g

\* the accumulation boundary: clip, (unscale, scaler.step, scaler.update |
\* optimizer.step), scheduler.step, zero_grad, global_step += 1, epoch_step += 1
AccumBoundary ==
  /\ pc = "accum"
  /\ optSteps' = optSteps + 1
  /\ ampOps' = IF is_fp16 THEN ampOps + 3 ELSE ampOps
  /\ schedSteps' = schedSteps + 1
  /\ params' = params + 1
  /\ grads' = 0
  /\ global_step' = global_step + 1
  /\ epoch_step' = epoch_step + 1
  /\ cumAt' = Append(cumAt, tr_loss)
  /\ trained' = TRUE
  /\ pc' = IF AtLoggingBoundary(global_step + 1, logging_steps)
           THEN "logging" ELSE AfterBatch(step)
  /\ UNCHANGED <<envVars, err, cfgVars, max_steps, self_epochs, mode, argVars,
                 epoch, step, tr_loss, logging_loss, epoch_loss, logged, ret,
                 valVars, calls>>
  /\ ops' = BoundaryOps(is_fp16)
  /\ applied' = AppliedGrads(BoundaryOps(is_fp16), grads)
  /\ UNCHANGED <<fitVals>>
  /\ stepLoss' = Append(stepLoss, accLoss)
  /\ accLoss' = 0
  /\ UNCHANGED <<fwds, sinceVal>>
  /\ UNCHANGED <<multi_gpu, wrapDepth, saved>>
  /\ UNCHANGED <<maskCalls, fed>>

\* the logging boundary, first half: if validate: results = self.validate()
LoggingBoundary ==
  /\ pc = "logging"
  /\ IF validate
     THEN pc' = "validate" /\ valRet' = "log"
     ELSE pc' = "log" /\ UNCHANGED valRet
  /\ UNCHANGED <<envVars, err, cfgVars, max_steps, self_epochs, modelVars,
                 argVars, epoch, step, countVars, stepVars, ampOps, cumAt,
                 logged, ret, results, valRuns, trained, calls>>
  /\ UNCHANGED <<ops, applied>>
  /\ UNCHANGED <<fitVals>>
  /\ UNCHANGED <<accLoss, stepLoss>>
  /\ UNCHANGED <<fwds, sinceVal>>
  /\ UNCHANGED <<multi_gpu, wrapDepth, saved>>
  /\ UNCHANGED <<maskCalls, fed>>

\* (tr_loss - logging_loss) / self.logging_steps
WindowLoss(tr, lg, ls) == (tr - lg) \div ls

\* faulty variant: the window start is never moved
NextLoggingLossKept(tr, lg) == lg

\* logging_loss = tr_loss
NextLoggingLoss(tr, lg) == tr

\* the logging boundary, second half: the lr and loss records, logging_loss = tr_loss
LogMetrics ==
  /\ pc = "log"
  /\ logged' = Append(logged, [step |-> global_step,
                               lr   |-> schedSteps,  \* scheduler.get_lr()[0]
                               loss |-> WindowLoss(tr_loss, logging_loss, logging_steps)])
  /\ logging_loss' = NextLoggingLoss(tr_loss, logging_loss)
  /\ pc' = AfterBatch(step)
  /\ UNCHANGED <<envVars, err, cfgVars, max_steps, self_epochs, modelVars,
                 argVars, epoch, step, global_step, epoch_step, tr_loss,
                 epoch_loss, stepVars, ampOps, cumAt, ret, valVars, trained,
                 calls>>
  /\ UNCHANGED <<ops, applied>>
  /\ UNCHANGED <<fitVals>>
  /\ UNCHANGED <<accLoss, stepLoss>>
  /\ UNCHANGED <<fwds, sinceVal>>
  /\ UNCHANGED <<multi_gpu, wrapDepth, saved>>
  /\ UNCHANGED <<maskCalls, fed>>

\* after the batch loop: if validate: results = self.validate()
EpochEnd ==
  /\ pc = "epoch_end"
  /\ IF validate
     THEN pc' = "validate" /\ valRet' = "epoch_log"
     ELSE pc' = "epoch_log" /\ UNCHANGED valRet
  /\ UNCHANGED <<envVars, err, cfgVars, max_steps, self_epochs, modelVars,
                 argVars, epoch, step, countVars, stepVars, ampOps, cumAt,
                 logged, ret, results, valRuns, trained, calls>>
  /\ UNCHANGED <<ops, applied>>
  /\ UNCHANGED <<fitVals>>
  /\ UNCHANGED <<accLoss, stepLoss>>
  /\ UNCHANGED <<fwds, sinceVal>>
  /\ UNCHANGED <<multi_gpu, wrapDepth, saved>>
  /\ UNCHANGED <<maskCalls, fed>>

\* the epoch's log lines: epoch_loss / epoch_step, then the next epoch
EpochLog ==
  /\ pc = "epoch_log"
  /\ IF epoch_step = 0
     THEN Raise("ZeroDivisionError") /\ UNCHANGED epoch
     ELSE /\ epoch' = epoch + 1
          /\ pc' = IF epoch + 1 < epochs THEN "epoch_start" ELSE "return"
          /\ UNCHANGED err
  /\ UNCHANGED <<envVars, cfgVars, max_steps, self_epochs, modelVars, argVars,
                 step, countVars, stepVars, ampOps, cumAt, logged, ret, valVars,
                 trained, calls>>
  /\ UNCHANGED <<ops, applied>>
  /\ UNCHANGED <<fitVals>>
  /\ UNCHANGED <<accLoss, stepLoss>>
  /\ UNCHANGED <<fwds, sinceVal>>
  /\ UNCHANGED <<multi_gpu, wrapDepth, saved>>
  /\ UNCHANGED <<maskCalls, fed>>

\* faulty variant: the number of micro-batches is returned as the step count
FitResultMicroBatches(g, tr) ==
  [total_steps |-> g * grad_accumulation_steps, mean_loss |-> Frac(tr, g * Denom)]

\* return global_step, tr_loss / global_step
FitResult(g, tr) == [total_steps |-> g, mean_loss |-> Frac(tr, g * Denom)]

FitReturn ==
  /\ pc = "return"
  /\ IF global_step = 0
     THEN Raise("ZeroDivisionError") /\ UNCHANGED ret
     ELSE /\ ret' = FitResult(global_step, tr_loss)
          /\ pc' = "idle"
          /\ UNCHANGED err
  /\ UNCHANGED <<envVars, cfgVars, max_steps, self_epochs, modelVars, argVars,
                 epoch, step, countVars, stepVars, ampOps, cumAt, logged,
                 valVars, trained, calls>>
  /\ UNCHANGED <<ops, applied>>
  /\ UNCHANGED <<fitVals>>
  /\ UNCHANGED <<accLoss, stepLoss>>
  /\ UNCHANGED <<fwds, sinceVal>>
  /\ UNCHANGED <<multi_gpu, wrapDepth, saved>>
  /\ UNCHANGED <<maskCalls, fed>>

\* ----------------------------------------------------------------- validate
\* faulty variant: the accumulator is kept from the previous call
EvalLossCarried == IF "loss" \in DOMAIN results THEN results["loss"].n ELSE 0

\* eval_loss = 0
EvalLossInit == 0

\* self.model.eval() before each validation forward pass
ValForwardMode(m) == "eval"

\* eval_loss += tmp_eval_loss.mean().item(), over the n batches of val_dl
RECURSIVE EvalLossSum(_, _, _)
EvalLossSum(p, n, m) ==
  IF n = 0 THEN EvalLossInit
  ELSE EvalLossSum(p, n - 1, m) + ValBatchLoss(p, n, ValForwardMode(m))

\* dict.update: the entries of b replace those of a
Update(a, b) == [k \in DOMAIN a \cup DOMAIN b |-> IF k \in DOMAIN b THEN b[k] ELSE a[k]]

\* validation_scores = {metric["name"]: 0.0 for metric in self.metrics}
ValidationScores(ms) == [k \in ms |-> Zero]

\* eval_loss = eval_loss / nb_eval_steps; perplexity = exp(eval_loss);
\* results = {"loss": ..., "perplexity": ...}; results.update(validation_scores)
ValidateResults(p, n, m, ms) ==
  LET eval_loss == Frac(EvalLossSum(p, n, m), n)
      res == [k \in {"loss", "perplexity"} |->
                IF k = "loss" THEN eval_loss ELSE Exp(eval_loss)]
  IN Update(res, ValidationScores(ms))

\* faulty variant: validate() zeroes the gradients
ValidateFrameZeroGrad(f) == [f EXCEPT ![2] = 0]

\* what validate() may change besides the model's mode and its own result:
\* the learner's counters, gradients and steppers after the call
ValidateFrame(f) == f

\* validate(), called from fit or by the user
ValidateRun ==
  /\ pc = "validate"
  /\ IF nVal = 0
     THEN \* eval_loss / nb_eval_steps with no batch seen
          /\ Raise("ZeroDivisionError")
          /\ UNCHANGED <<mode, results, valRuns, trained>>
     ELSE IF ~neptune_run
     THEN \* self.neptune_run[...] on None, after the loop
          /\ Raise("TypeError")
          /\ mode' = ValForwardMode(mode)
          /\ UNCHANGED <<results, valRuns, trained>>
     ELSE /\ mode' = ValForwardMode(mode)
          /\ results' = ValidateResults(params, nVal, mode, metrics)
          /\ valRuns' = valRuns + 1
          /\ trained' = FALSE
          /\ pc' = valRet
          /\ UNCHANGED err
  /\ LET f == ValidateFrame(<<params, grads, global_step, epoch_step, tr_loss,
                              logging_loss, epoch_loss, optSteps, schedSteps>>)
     IN /\ params' = f[1] /\ grads' = f[2]
        /\ global_step' = f[3] /\ epoch_step' = f[4]
        /\ tr_loss' = f[5] /\ logging_loss' = f[6] /\ epoch_loss' = f[7]
        /\ optSteps' = f[8] /\ schedSteps' = f[9]
  /\ UNCHANGED <<envVars, cfgVars, max_steps, self_epochs, argVars, epoch,
                 step, ampOps, cumAt, logged, ret, valRet, calls>>
  /\ UNCHANGED <<ops, applied>>
  /\ fitVals' = IF nVal # 0 /\ neptune_run /\ valRet # "idle" THEN fitVals + 1 ELSE fitVals
  /\ UNCHANGED <<accLoss, stepLoss>>
  /\ fwds' = IF nVal = 0 THEN fwds
           ELSE fwds \cup {[kind |-> "val", mode |-> ValForwardMode(mode), grad |-> FALSE]}
  /\ sinceVal' = IF nVal # 0 /\ neptune_run THEN TRUE ELSE sinceVal
  /\ UNCHANGED <<multi_gpu, wrapDepth, saved>>
  /\ UNCHANGED <<maskCalls, fed>>

\* learner.validate() called by the user
ValidateCall ==
  /\ pc = "idle" /\ calls < MaxCalls
  /\ calls' = calls + 1
  /\ pc' = "validate" /\ valRet' = "idle"
  /\ UNCHANGED <<envVars, err, cfgVars, max_steps, self_epochs, modelVars,
                 argVars, epoch, step, countVars, stepVars, ampOps, cumAt,
                 logged, ret, results, valRuns, trained>>
  /\ UNCHANGED <<ops, applied>>
  /\ UNCHANGED <<fitVals>>
  /\ UNCHANGED <<accLoss, stepLoss>>
  /\ UNCHANGED <<fwds, sinceVal>>
  /\ UNCHANGED <<multi_gpu, wrapDepth, saved>>
  /\ UNCHANGED <<maskCalls, fed>>

\* fit and validate
Run ==
  \/ FitStart
  \/ EpochStart
  \/ MicroStep
  \/ AccumBoundary
  \/ LoggingBoundary
  \/ LogMetrics
  \/ EpochEnd
  \/ EpochLog
  \/ FitReturn
  \/ ValidateCall
  \/ ValidateRun

\* the learner as this file leaves it: max_steps stays -1
Next == Construct \/ Run

Spec == Init /\ [][Next]_vars

\* the same with a metrics list configured
NextMetrics == ConstructMetrics \/ Run

SpecMetrics == Init /\ [][NextMetrics]_vars

\* the same with max_steps assigned by the caller before the first call
NextMaxSteps == Construct \/ SetMaxSteps \/ Run

SpecMaxSteps == Init /\ [][NextMaxSteps]_vars

\* the learner with multi_gpu on or off, and save_model between the calls
NextMultiGpu == ConstructMultiGpu \/ SaveModel \/ Run

SpecMultiGpu == Init /\ [][NextMultiGpu]_vars

\* ------------------------------------------------------------------ claims
\* positions inside the epoch loop of a running fit
InEpoch ==
  \/ pc \in {"micro", "accum", "logging", "log", "epoch_end", "epoch_log"}
  \/ pc = "validate" /\ valRet \in {"log", "epoch_log"}

\* positions inside a running fit
InFit == InEpoch \/ pc \in {"epoch_start", "return"}

\* a fit has returned, and no call is running
FitReturned == pc = "idle" /\ ret # NoRet

\* C1: in an epoch, an optimizer step is taken at the micro-batch with 1-based
\* index i iff k divides i, so after i micro-batches of the epoch floor(i/k)
\* steps were taken in it and a whole epoch of n batches takes floor(n/k);
\* the n mod k trailing micro-batches take none.
C1_StepsPerEpoch ==
  LET k == grad_accumulation_steps
      perEpoch == nTrain \div k
  IN /\ InEpoch =>
          /\ optSteps = epoch * perEpoch + (step \div k)
                          - (IF pc = "accum" THEN 1 ELSE 0)
          /\ pc = "accum" => step % k = 0
          /\ pc \in {"epoch_end", "epoch_log"} =>
                /\ step = nTrain
                /\ optSteps = (epoch + 1) * perEpoch
     /\ pc \in {"epoch_start", "return"} => optSteps = epoch * perEpoch

\* a second epoch has ended whose trailing micro-batches took no step
C1_Witness ==
  /\ pc = "epoch_end" /\ epoch >= 1
  /\ nTrain % grad_accumulation_steps # 0
  /\ optSteps = 2 * (nTrain \div grad_accumulation_steps) /\ optSteps > 0

\* C2: in every state, with or without mixed precision, the scheduler has
\* been stepped as often as the optimizer of this fit call, and that number
\* is global_step; the first element of what fit returns is that number,
\* counted from zero for the call (epochs * floor(n/k) when max_steps is
\* not set), whatever earlier fit calls did.
C2_StepCounts ==
  /\ schedSteps = optSteps
  /\ optSteps = global_step
  /\ FitReturned =>
       /\ ret.total_steps = optSteps
       /\ max_steps <= 0 =>
            ret.total_steps = epochs * (nTrain \div grad_accumulation_steps)

\* a second fit call has returned in mixed precision, and the learner's
\* model has had more updates than that call made
C2_Witness ==
  /\ FitReturned /\ calls = 2 /\ is_fp16 /\ ampOps > 0
  /\ params > ret.total_steps /\ ret.total_steps = optSteps
  /\ nTrain % grad_accumulation_steps # 0

\* C3: with max_steps not set, the total handed to the scheduler factory is
\* floor(n/k) * epochs, throughout fit, and when fit returns it is the
\* number of optimizer steps the loop has made.
C3_TotalSteps ==
  /\ (InFit /\ max_steps <= 0) =>
        t_total = (nTrain \div grad_accumulation_steps) * epochs
  /\ (FitReturned /\ max_steps <= 0) =>
        /\ t_total = (nTrain \div grad_accumulation_steps) * epochs
        /\ t_total = optSteps

\* a fit of two epochs has returned whose batch count k does not divide
C3_Witness ==
  /\ FitReturned /\ max_steps <= 0 /\ epochs = 2
  /\ nTrain % grad_accumulation_steps # 0
  /\ t_total = optSteps /\ optSteps >= 2

\* C4: with max_steps set, fit ends after enough whole epochs for the
\* optimizer steps made to reach max_steps, overshooting by at most one
\* epoch's steps; the epochs argument does not decide when it ends.
C4_MaxStepsTermination ==
  (FitReturned /\ max_steps > 0) =>
     /\ optSteps >= max_steps
     /\ optSteps - max_steps <= nTrain \div grad_accumulation_steps

\* the running loss when optimizer step s of this fit completed; 0 at step 0
CumLossAt(s) == IF s = 0 THEN 0 ELSE cumAt[s]

\* C5: the i-th logging record of a fit is written at global step
\* S = i * logging_steps and its training loss is (cumulative loss at step S
\* minus cumulative loss at step S - logging_steps) / logging_steps.
C5_WindowedLoss ==
  \A i \in DOMAIN logged :
     LET S == logged[i].step
     IN /\ logging_steps > 0
        /\ S = i * logging_steps
        /\ S <= Len(cumAt)
        /\ (CumLossAt(S) - CumLossAt(S - logging_steps)) % logging_steps = 0
        /\ logged[i].loss
             = (CumLossAt(S) - CumLossAt(S - logging_steps)) \div logging_steps

\* two windows of two optimizer steps each have been logged, the second
\* with a loss different from the first
C5_Witness ==
  /\ logging_steps = 2 /\ Len(logged) >= 2
  /\ logged[2].loss # logged[1].loss
  /\ logged[2].step = 4

\* C6: inside fit, global_step changes only at an accumulation boundary,
\* which is reached only after a micro-batch whose 1-based index in its
\* epoch is divisible by the accumulation factor, and there it grows by
\* exactly 1; it never decreases and the epoch start leaves it alone while
\* resetting epoch_step to 0.
C6_GlobalStepAdvance ==
  [][(InFit /\ InFit') =>
       /\ global_step' \in {global_step, global_step + 1}
       /\ global_step' = global_step + 1 <=> pc = "accum"
       /\ pc = "accum" => step >= 1 /\ step % grad_accumulation_steps = 0
       /\ (pc = "micro" /\ pc' # "accum") =>
             (step + 1) % grad_accumulation_steps # 0
       /\ pc = "epoch_start" => epoch_step' = 0 /\ global_step' = global_step
    ]_vars

\* a later epoch has started: epoch_step is back at 0, global_step is not
C6_Witness ==
  /\ pc = "micro" /\ epoch >= 1 /\ step = 0
  /\ epoch_step = 0 /\ global_step >= 1
  /\ grad_accumulation_steps >= 2

\* C7: a validate() run called from inside fit, at a logging boundary or at
\* an epoch end, leaves global_step, epoch_step, tr_loss, logging_loss,
\* epoch_loss, the accumulated gradients and the optimizer and scheduler
\* step counts unchanged.
C7_ValidateFrame ==
  [][(pc = "validate" /\ valRet \in {"log", "epoch_log"}) =>
       UNCHANGED <<global_step, epoch_step, tr_loss, logging_loss, epoch_loss,
                   grads, optSteps, schedSteps>>
    ]_vars

\* validate() has returned to an epoch end at which gradients of trailing
\* micro-batches are accumulated, after having run at a logging boundary too
C7_Witness ==
  /\ pc = "epoch_log" /\ validate /\ valRet = "epoch_log" /\ ~trained
  /\ grads >= 1 /\ global_step >= 1 /\ Len(logged) >= 1 /\ valRuns >= 2

\* C8: a validate() call that returns when no training step or optimizer
\* step has run since validate() last returned returns the same mapping
\* (loss, perplexity) and leaves the learner as that earlier call left it.
C8_ValidateIdempotent ==
  [][(pc = "validate" /\ pc' = valRet /\ ~trained) =>
       /\ results' = results
       /\ UNCHANGED <<mode, params, grads, cfgVars>>
    ]_vars

\* validate() has returned twice in a row, called by the user after a fit
C8_Witness ==
  /\ pc = "idle" /\ valRet = "idle" /\ ~trained
  /\ valRuns >= 2 /\ nVal >= 2 /\ params >= 1
  /\ "loss" \in DOMAIN results

\* the mean of the per-batch validation losses of the current model
MeanValLoss == Frac(SumTo([j \in 1..nVal |-> ValBatchLoss(params, j, "eval")], nVal), nVal)

\* C9: whatever the metrics list, what validate() returned on a non-empty
\* validation set has a "loss" entry equal to the mean of the per-batch
\* validation losses and a "perplexity" entry equal to exp of that entry.
C9_LossAndPerplexity ==
  (results # NoResults /\ ~trained /\ nVal >= 1) =>
     /\ {"loss", "perplexity"} \subseteq DOMAIN results
     /\ results["loss"] = MeanValLoss
     /\ results["perplexity"] = Exp(results["loss"])

\* C10: on a runtime without AMP every constructed learner, whichever way
\* it was constructed, is in full precision: construction does not raise,
\* the precision flag is off, there is no scaler, and no training step or
\* accumulation boundary enters autocast or calls the scaler.
C10_PrecisionFallback ==
  (~ampAvail /\ pc # "new") =>
     /\ ~is_fp16
     /\ scaler = None
     /\ err \notin {"AttributeError", "NameError"}
     /\ ampOps = 0
\* C11: a learner constructed without a metrics sink (neptune_run None) runs
\* every training step and every validate() call without raising.
C11_SinkOptional ==
  (~neptune_run /\ pc # "new") => err # "TypeError"
\* the number of times operation x occurs in the sequence seq
Count(seq, x) == Cardinality({i \in 1..Len(seq) : seq[i] = x})

\* C12: at every accumulation boundary each operation occurs exactly once and
\* in this order: clip the gradient norm; in mixed precision unscale, step
\* the optimizer through the scaler and update the scaler, otherwise step the
\* optimizer directly; step the scheduler; zero the gradients; increment
\* global_step, then epoch_step.  So the gradients are not zeroed between the
\* window's last backward pass and the optimizer step, and the scheduler does
\* not step before the optimizer.
C12_BoundaryOrder ==
  optSteps >= 1 =>
    /\ ops = IF is_fp16
             THEN <<"clip_grad_norm", "scaler.unscale", "scaler.step",
                    "scaler.update", "scheduler.step", "zero_grad",
                    "global_step", "epoch_step">>
             ELSE <<"clip_grad_norm", "optimizer.step", "scheduler.step",
                    "zero_grad", "global_step", "epoch_step">>
    /\ \A i \in 1..Len(ops) : Count(ops, ops[i]) = 1
    /\ Pos(ops, StepOp(is_fp16)) < Pos(ops, "scheduler.step")
    /\ Pos(ops, StepOp(is_fp16)) < Pos(ops, "zero_grad")
    /\ applied >= grad_accumulation_steps

\* boundaries have run in mixed precision, the last one in a later epoch
C12_Witness ==
  /\ is_fp16 /\ optSteps >= 2 /\ epoch >= 1 /\ grad_accumulation_steps >= 2
  /\ Len(ops) = 8 /\ applied >= 2
\* the learner's first call was a fit of at least one epoch, and it has ended
FirstFitEnded == calls = 1 /\ epochs >= 1 /\ pc \in {"idle", "raised"}

\* how fit ends when no accumulation window completes: a division by zero at
\* the end of the first epoch, every micro-batch having run forward and
\* backward, the epoch-end validate() called if validate is set, no
\* optimizer or scheduler step made and nothing returned
EndsAtFirstEpochLog ==
  /\ pc = "raised" /\ err = "ZeroDivisionError"
  /\ epoch = 0 /\ step = nTrain /\ grads = nTrain
  /\ validate => valRet = "epoch_log"
  /\ optSteps = 0 /\ schedSteps = 0 /\ global_step = 0
  /\ ret = NoRet

\* C13: with fewer training batches than the accumulation factor and
\* epochs >= 1, fit ends with a division-by-zero error at the end of the
\* first epoch, as EndsAtFirstEpochLog describes.
C13_NoWindowCompletes ==
  (FirstFitEnded /\ nTrain < grad_accumulation_steps) => EndsAtFirstEpochLog

\* the same, for learners with a metrics sink and a supported precision
C13_WithSinkAndPrecision ==
  (FirstFitEnded /\ nTrain < grad_accumulation_steps
     /\ neptune_run /\ (is_fp16 => ampAvail)) => EndsAtFirstEpochLog
\* logging boundaries reached so far in this fit
BoundariesReached == IF logging_steps > 0 THEN global_step \div logging_steps ELSE 0

\* the logging boundary just reached has not written its records yet
LogPending == pc \in {"logging", "log"} \/ (pc = "validate" /\ valRet = "log")

\* C14: in a fit there is exactly one learning-rate and loss record for each
\* value S of global_step reached that is a positive multiple of
\* logging_steps, written at the accumulation boundary that reached S, and
\* none when logging_steps <= 0; validate() has run once per logging boundary
\* and once per ended epoch when validate is set, and never otherwise.
C14_LoggingBoundaries ==
  (InFit \/ FitReturned) =>
    /\ Len(logged) = BoundariesReached - (IF LogPending THEN 1 ELSE 0)
    /\ \A i \in DOMAIN logged :
          logged[i].step = i * logging_steps /\ logged[i].lr = logged[i].step
    /\ LogPending => optSteps = global_step /\ AtLoggingBoundary(global_step, logging_steps)
    /\ fitVals = IF validate
                 THEN BoundariesReached
                      - (IF pc = "logging" \/ (pc = "validate" /\ valRet = "log")
                         THEN 1 ELSE 0)
                      + epoch + (IF pc = "epoch_log" THEN 1 ELSE 0)
                 ELSE 0

\* a fit with validation has returned after two logging boundaries, each
\* followed by micro-batches that left global_step where it was
C14_Witness ==
  /\ FitReturned /\ validate /\ logging_steps >= 1 /\ Len(logged) = 2
  /\ nTrain % grad_accumulation_steps # 0
  /\ fitVals = 2 + epochs

\* no record is written when logging_steps is 0
C14_WitnessOff ==
  /\ FitReturned /\ ~validate /\ logging_steps = 0 /\ global_step >= 2
\* the sum of the entries a..b of a sequence of losses
RECURSIVE SumFromTo(_, _, _)
SumFromTo(seq, a, b) == IF b < a THEN 0 ELSE SumFromTo(seq, a, b - 1) + seq[b]

\* C15: the loss logged at a logging boundary is the mean, over the
\* logging_steps optimizer steps of its window, of each step's average loss
\* over the micro-batches that made up the step, whatever the batch count,
\* the accumulation factor and the epoch count.
C15_WindowOfStepAverages ==
  \A i \in DOMAIN logged :
    i * logging_steps <= Len(stepLoss) =>
      logged[i].loss * logging_steps
        = SumFromTo(stepLoss, (i - 1) * logging_steps + 1, i * logging_steps)

\* C16: at every accumulation boundary of a fit the gradients hold the
\* backward passes of exactly grad_accumulation_steps micro-batches, and the
\* optimizer step applies exactly those.
C16_GradsPerStep ==
  /\ pc = "accum" => grads = grad_accumulation_steps
  /\ (InFit /\ optSteps >= 1) => applied = grad_accumulation_steps
\* C17: every forward pass of a training step runs in training mode with
\* gradient tracking, also the first one after a validate() that left the
\* model in evaluation mode; every forward pass of validate() runs in
\* evaluation mode without gradient tracking; after validate() returns the
\* model stays in evaluation mode until the next training step.
C17_ForwardModes ==
  /\ \A f \in fwds : IF f.kind = "train" THEN f.mode = "train" /\ f.grad
                                         ELSE f.mode = "eval" /\ ~f.grad
  /\ sinceVal => mode = "eval"
  /\ mode = "eval" => valRuns >= 1 \/ \E f \in fwds : f.kind = "val"

\* a training step has run after a validate() of the same fit returned
C17_Witness ==
  /\ InFit /\ valRuns >= 1 /\ ~sinceVal /\ mode = "train" /\ err = "none"
  /\ \E f \in fwds : f.kind = "val"
  /\ \E f \in fwds : f.kind = "train"

\* the model is in evaluation mode between the user's validate() and a fit
C17_WitnessEval ==
  /\ pc = "idle" /\ sinceVal /\ mode = "eval" /\ calls = 1
\* C18: whatever fit calls were made, with multi_gpu on or off, the model is
\* inside at most one DataParallel layer, and every save_model between or
\* after them persisted the bare model, never a wrapper.
C18_OneWrapper ==
  /\ wrapDepth <= 1
  /\ saved \subseteq {0}
  /\ (InFit \/ FitReturned) => wrapDepth = IF multi_gpu THEN 1 ELSE 0

\* a second fit of a multi_gpu learner is under way on a model the first fit
\* left wrapped, and save_model ran in between
C18_Witness ==
  /\ InFit /\ calls = 2 /\ ret # NoRet /\ multi_gpu
  /\ wrapDepth = 1 /\ saved = {0}
\* C19: in fit the masking transform is applied exactly once to each
\* micro-batch, by training_step, and the pair it returns is the one given to
\* the forward pass; the batch loop does not mask the batch itself.
C19_MaskedOnce ==
  maskCalls # <<>> =>
    /\ maskCalls = <<"training_step">>
    /\ fed \in {None, "training_step"}
====
